---------------------------- MODULE Spec2Model ----------------------------
(***************************************************************************)
(* A model of set.go of prometheus-sql: QueryResult, registerMetric,       *)
(* setValueForResult, SetMetrics and RemoveMissingMetrics.                 *)
(*                                                                         *)
(* Representation.                                                         *)
(*   - A Go string is a sequence of byte values (ASCII codes), so that     *)
(*     strings.ToLower, the regular expressions, json.Marshal's key order  *)
(*     and strconv.ParseFloat are computed character by character.         *)
(*   - An interface{} value is a record [t, s, n]: t is the dynamic type   *)
(*     ("string", "int", "float64", or "nil" for every type the switch of  *)
(*     setValueForResult does not list), s the text of a string, n the     *)
(*     number of an int or a float64.                                      *)
(*   - A float64 is kept in tenths: n = 15 stands for 1.5.  The inputs     *)
(*     have at most one fractional digit, so nothing is rounded.           *)
(*   - A Go map is a function; a row also carries the order in which       *)
(*     `range` visits its columns, which Go leaves unspecified: a row is a *)
(*     sequence of [k, v] with pairwise different k.                       *)
(*                                                                         *)
(* set.go does not compile as it stands.  The multi-dimensional branch is  *)
(* read as follows: `for _, label := r.Query.DataLabels` ranges over       *)
(* DataLabels; dataVal and dataFound, which it never declares, are         *)
(* declared per row as in the single-dimensional branch (lines 126-129);   *)
(* the regular expressions are applied to the text of v.                   *)
(***************************************************************************)
EXTENDS Integers, Sequences, FiniteSets, TLC

(***************************************************************************)
(* Bytes and strings                                                       *)
(***************************************************************************)
ToLowerChar(c) == IF c >= 65 /\ c <= 90 THEN c + 32 ELSE c

\* strings.ToLower
ToLower(s) == [i \in 1..Len(s) |-> ToLowerChar(s[i])]

RECURSIVE Concat(_)
\* the concatenation of a sequence of strings
Concat(ss) == IF ss = <<>> THEN <<>> ELSE Head(ss) \o Concat(Tail(ss))

RECURSIVE LexLess(_, _)
\* a < b for Go strings: byte-wise lexicographic order
LexLess(a, b) ==
    IF b = <<>> THEN FALSE
    ELSE IF a = <<>> THEN TRUE
    ELSE IF a[1] # b[1] THEN a[1] < b[1]
    ELSE LexLess(Tail(a), Tail(b))

RECURSIVE SortStrings(_)
\* the strings of a finite set in increasing order (sort.Strings)
SortStrings(S) ==
    IF S = {} THEN <<>>
    ELSE LET m == CHOOSE x \in S : \A y \in S \ {x} : LexLess(x, y)
         IN  <<m>> \o SortStrings(S \ {m})

RECURSIVE Digits(_)
\* the decimal digits of a natural number
Digits(n) == IF n < 10 THEN <<48 + n>> ELSE Digits(n \div 10) \o <<48 + (n % 10)>>

\* an integer printed in base 10 (%v of an int, json of an int)
Itoa(i) == IF i < 0 THEN <<45>> \o Digits(-i) ELSE Digits(i)

\* a float64 (in tenths) printed in its shortest form: 1, 1.5, -2.5
FormatFloat(f) ==
    LET a == IF f < 0 THEN -f ELSE f
        sign == IF f < 0 THEN <<45>> ELSE <<>>
    IN  IF a % 10 = 0 THEN sign \o Digits(a \div 10)
        ELSE sign \o Digits(a \div 10) \o <<46, 48 + (a % 10)>>

(***************************************************************************)
(* interface{} values                                                      *)
(***************************************************************************)
StrV(s)   == [t |-> "string",  s |-> s,    n |-> 0]
IntV(i)   == [t |-> "int",     s |-> <<>>, n |-> i]
FloatV(f) == [t |-> "float64", s |-> <<>>, n |-> f]
NilV      == [t |-> "nil",     s |-> <<>>, n |-> 0]

\* fmt.Sprintf("%v", v)
Sprintv(v) ==
    CASE v.t = "string"  -> v.s
      [] v.t = "int"     -> Itoa(v.n)
      [] v.t = "float64" -> FormatFloat(v.n)
      [] OTHER           -> <<60, 110, 105, 108, 62>>            \* <nil>

\* one byte of a string inside a JSON string literal
JsonEscapeChar(c) ==
    CASE c = 34 -> <<92, 34>>                                    \* \"
      [] c = 92 -> <<92, 92>>                                    \* \\
      [] c = 60 -> <<92, 117, 48, 48, 51, 99>>                   \* <
      [] c = 62 -> <<92, 117, 48, 48, 51, 101>>                  \* >
      [] c = 38 -> <<92, 117, 48, 48, 50, 54>>                   \* &
      [] OTHER  -> <<c>>

\* a string as a JSON string literal
JsonString(s) ==
    <<34>> \o Concat([i \in 1..Len(s) |-> JsonEscapeChar(s[i])]) \o <<34>>

\* a value as JSON: a string is quoted, a number is bare, nil is null
JsonValue(v) ==
    CASE v.t = "string"  -> JsonString(v.s)
      [] v.t = "int"     -> Itoa(v.n)
      [] v.t = "float64" -> FormatFloat(v.n)
      [] OTHER           -> <<110, 117, 108, 108>>               \* null

RECURSIVE JsonMembers(_, _)
\* "k":v,"k":v,... for the keys ks of map m, in the order of ks
JsonMembers(m, ks) ==
    IF ks = <<>> THEN <<>>
    ELSE JsonString(Head(ks)) \o <<58>> \o JsonValue(m[Head(ks)])
         \o (IF Len(ks) > 1 THEN <<44>> ELSE <<>>)
         \o JsonMembers(m, Tail(ks))

\* json.Marshal of a map[string]interface{}: the keys are sorted
JsonMarshal(m) == <<123>> \o JsonMembers(m, SortStrings(DOMAIN m)) \o <<125>>


(***************************************************************************)
(* strconv.ParseFloat(t, 64), for texts made of a sign, decimal digits and *)
(* one point.  Any other text over the bytes the inputs use (letters,      *)
(* punctuation) is a syntax error.  The value is in tenths.                *)
(***************************************************************************)
IsDigit(c) == c >= 48 /\ c <= 57

Unsigned(s) == IF s # <<>> /\ s[1] \in {43, 45} THEN Tail(s) ELSE s

RECURSIVE DigitsVal(_)
DigitsVal(ds) ==
    IF ds = <<>> THEN 0
    ELSE 10 * DigitsVal(SubSeq(ds, 1, Len(ds) - 1)) + (ds[Len(ds)] - 48)

\* whether ParseFloat returns a nil error
ParseOK(s) ==
    LET u == Unsigned(s)
    IN  /\ \A i \in 1..Len(u) : IsDigit(u[i]) \/ u[i] = 46
        /\ \E i \in 1..Len(u) : IsDigit(u[i])
        /\ Cardinality({i \in 1..Len(u) : u[i] = 46}) <= 1

\* the float64 ParseFloat returns, when ParseOK
ParseVal(s) ==
    LET u    == Unsigned(s)
        dots == {i \in 1..Len(u) : u[i] = 46}
        d    == IF dots = {} THEN Len(u) + 1 ELSE CHOOSE i \in dots : TRUE
        ip   == SubSeq(u, 1, d - 1)
        fp   == SubSeq(u, d + 1, Len(u))
        a    == 10 * DigitsVal(ip) + (IF fp = <<>> THEN 0 ELSE fp[1] - 48)
    IN  IF s # <<>> /\ s[1] = 45 THEN -a ELSE a

(***************************************************************************)
(* The regular expressions of lines 12-13 and strings.TrimSpace            *)
(***************************************************************************)
\* a byte that [^a-zA-Z0-9_] does not match
IsNameChar(c) ==
    \/ c >= 97 /\ c <= 122
    \/ c >= 65 /\ c <= 90
    \/ IsDigit(c)
    \/ c = 95

\* a byte that [%()] matches
IsIgnoreChar(c) == c \in {37, 40, 41}

\* invalidNameCharRE.ReplaceAllString(s, "_")
ReplaceInvalid(s) == [i \in 1..Len(s) |-> IF IsNameChar(s[i]) THEN s[i] ELSE 95]

\* ignoreNameCharRE.ReplaceAllString(s, "")
RemoveIgnored(s) == SelectSeq(s, LAMBDA c : ~IsIgnoreChar(c))

IsSpace(c) == c = 32 \/ (c >= 9 /\ c <= 13)

RECURSIVE TrimLeft(_)
TrimLeft(s) == IF s # <<>> /\ IsSpace(s[1]) THEN TrimLeft(Tail(s)) ELSE s

RECURSIVE TrimRight(_)
TrimRight(s) ==
    IF s # <<>> /\ IsSpace(s[Len(s)]) THEN TrimRight(SubSeq(s, 1, Len(s) - 1)) ELSE s

\* strings.TrimSpace
TrimSpace(s) == TrimRight(TrimLeft(s))

\* Lines 105-106: the name the override column's text v leaves in
\* r.Query.Name.  Line 105's assignment is overwritten by line 106, which
\* starts again from v.
OverrideName(v) ==
    LET first  == RemoveIgnored(v)
        second == TrimSpace(ReplaceInvalid(v))
    IN  second

\* "query_result_"
NamePrefix == <<113, 117, 101, 114, 121, 95, 114, 101, 115, 117, 108, 116, 95>>

(***************************************************************************)
(* The state of one run of SetMetrics.  While a call runs, s holds         *)
(*   Result      r.Result: facet key -> gauge                              *)
(*   Name        r.Query.Name                                              *)
(*   registered  the descriptors registered with the default registry      *)
(*   touched     facetsWithResult                                          *)
(*   err         the error returned ("none" for nil), errRow its row        *)
(*   panic       whether MustRegister panicked                             *)
(*   key         the last value registerMetric returned                    *)
(*   events      the calls made on the metrics library, each with          *)
(*               r.Query.Name at the time and the row being processed:     *)
(*               "register" (NewGauge and MustRegister, lines 44-50) and   *)
(*               "set" (Gauge.Set)                                         *)
(***************************************************************************)
MapPut(m, k, v) == (k :> v) @@ m

Event(op, key, name, row) == [op |-> op, key |-> key, name |-> name, row |-> row]

\* prometheus.NewGauge(GaugeOpts{Name, Help, ConstLabels}): a gauge is 0
\* until it is set
NewGauge(qname, labels) ==
    [name |-> NamePrefix \o qname, labels |-> labels, val |-> 0, isSet |-> FALSE]

\* what the registry identifies a collector by: its name and constant labels
Desc(g) == [name |-> g.name, labels |-> g.labels]

\* prometheus.MustRegister: panics when the descriptor is already registered
MustRegister(s, g) ==
    IF Desc(g) \in s.registered
    THEN [s EXCEPT !.panic = TRUE]
    ELSE [s EXCEPT !.registered = @ \cup {Desc(g)}]

\* lines 36-38: the labels of a facet map
Labels(facets) == [k \in DOMAIN facets |-> ToLower(Sprintv(facets[k]))]

\* lines 33-34: the key of a facet map
ResultKey(facets) == JsonMarshal(facets)

\* registerMetric without the test of line 40: a gauge is built and
\* registered on every call
registerMetricAlways(s, facets, row) ==
    LET resultKey == ResultKey(facets)
        g  == NewGauge(s.Name, Labels(facets))
        s1 == [s EXCEPT !.key    = resultKey,
                        !.Result = [x \in DOMAIN @ \cup {resultKey} |->
                                       IF x = resultKey THEN g ELSE @[x]],
                        !.events = Append(@, Event("register", resultKey, s.Name, row))]
    IN  MustRegister(s1, g)

\* registerMetric (lines 30-52)
registerMetric(s, facets, row) ==
    LET resultKey == ResultKey(facets)
        labels    == Labels(facets)
    IN  IF resultKey \in DOMAIN s.Result
        THEN [s EXCEPT !.key = resultKey]
        ELSE LET g  == NewGauge(s.Name, labels)
                 s1 == [s EXCEPT !.key    = resultKey,
                                 !.Result = MapPut(@, resultKey, g),
                                 !.events = Append(@, Event("register", resultKey, s.Name, row))]
             IN  MustRegister(s1, g)

\* Gauge.Set
GaugeSet(s, key, f, row) ==
    [s EXCEPT !.Result[key].val   = f,
              !.Result[key].isSet = TRUE,
              !.events = Append(@, Event("set", key, s.Name, row))]

Fail(s, e, row) == [s EXCEPT !.err = e, !.errRow = row]

\* setValueForResult (lines 57-73) on r.Result[key]
setValueForResult(s, key, v, row) ==
    CASE v.t = "string"  -> IF ParseOK(v.s)
                            THEN GaugeSet(s, key, ParseVal(v.s), row)
                            ELSE Fail(s, "InvalidNumericText", row)
      [] v.t = "int"     -> GaugeSet(s, key, 10 * v.n, row)
      [] v.t = "float64" -> GaugeSet(s, key, v.n, row)
      [] OTHER           -> Fail(s, "UnsupportedValueType", row)

\* lines 146-151 and 114-119: register, set, record the key
RegisterAndSet(s, facet, dataVal, row) ==
    LET s1 == registerMetric(s, facet, row)
    IN  IF s1.panic THEN s1
        ELSE LET s2 == setValueForResult(s1, s1.key, dataVal, row)
             IN  IF s2.err # "none" THEN s2
                 ELSE [s2 EXCEPT !.touched = @ \cup {s1.key}]

NoData == [facet |-> <<>>, dataVal |-> NilV, dataFound |-> FALSE]

(***************************************************************************)
(* The single-dimensional branch (lines 124-152)                           *)
(***************************************************************************)
RECURSIVE SingleColumns(_, _, _, _)
\* lines 133-140: the columns of row from the i-th on
SingleColumns(q, row, i, acc) ==
    IF i > Len(row) THEN acc
    ELSE LET k == row[i].k
             v == row[i].v
         IN  IF Len(row) > 1 /\ ToLower(k) # q.DataField
             THEN SingleColumns(q, row, i + 1,
                      [acc EXCEPT !.facet = MapPut(@, ToLower(Sprintv(StrV(k))), v)])
             ELSE SingleColumns(q, row, i + 1,
                      [acc EXCEPT !.dataVal = v, !.dataFound = TRUE])

\* lines 125-151 without the test of lines 130-132
SingleRowNoFieldTest(s, q, row, idx) ==
    LET acc == SingleColumns(q, row, 1, NoData)
    IN  IF ~acc.dataFound
        THEN Fail(s, "DataFieldNotFound", idx)
        ELSE RegisterAndSet(s, acc.facet, acc.dataVal, idx)

\* lines 125-151: one row
SingleRow(s, q, row, idx) ==
    IF Len(row) > 1 /\ q.DataField = <<>>
    THEN Fail(s, "MissingDataField", idx)
    ELSE LET acc == SingleColumns(q, row, 1, NoData)
         IN  IF ~acc.dataFound
             THEN Fail(s, "DataFieldNotFound", idx)
             ELSE RegisterAndSet(s, acc.facet, acc.dataVal, idx)

(***************************************************************************)
(* The multi-dimensional branch (lines 83-122)                             *)
(***************************************************************************)
\* The condition `r.Query.DataMetric` of line 86.  The declaration of Query
\* is not in set.go; the condition reads: no metric column was specified.
DataMetricNotSpecified(q) == q.DataMetric = <<>>

RECURSIVE LabelLoop(_, _, _, _, _)
\* lines 94-99: the labels of DataLabels from the j-th on, for column k, v
LabelLoop(q, k, v, j, lacc) ==
    IF j > Len(q.DataLabels) THEN lacc
    ELSE LET label == q.DataLabels[j]
         IN  IF ToLower(k) = ToLower(label)
             THEN LabelLoop(q, k, v, j + 1,
                      [facet   |-> MapPut(lacc.facet, ToLower(Sprintv(StrV(label))), v),
                       isLabel |-> TRUE])
             ELSE LabelLoop(q, k, v, j + 1, lacc)

RECURSIVE MultiColumns(_, _, _, _, _, _)
\* lines 90-121: the columns of row from the i-th on
MultiColumns(s, q, row, i, acc, idx) ==
    IF i > Len(row) \/ s.err # "none" \/ s.panic THEN s
    ELSE LET k    == row[i].k
             v    == row[i].v
             lacc == LabelLoop(q, k, v, 1, [facet |-> acc.facet, isLabel |-> FALSE])
             isMetric == ~lacc.isLabel /\ ToLower(k) = q.DataMetric
             isData   == ~lacc.isLabel /\ ToLower(k) # q.DataMetric
             s1   == IF isMetric THEN [s EXCEPT !.Name = OverrideName(v.s)] ELSE s
             acc1 == IF isData
                     THEN [facet     |-> MapPut(lacc.facet, q.DataLabelName, StrV(k)),
                           dataVal   |-> v,
                           dataFound |-> TRUE]
                     ELSE [acc EXCEPT !.facet = lacc.facet]
             s2   == RegisterAndSet(s1, acc1.facet, acc1.dataVal, idx)
         IN  MultiColumns(s2, q, row, i + 1, acc1, idx)

\* lines 84-121 with the test of lines 86-88 after the columns
MultiRowLateTest(s, q, row, idx) ==
    LET s1 == MultiColumns(s, q, row, 1, NoData, idx)
    IN  IF s1.err = "none" /\ ~s1.panic /\ Len(row) > 1 /\ DataMetricNotSpecified(q)
        THEN Fail(s1, "MissingDataMetricColumn", idx)
        ELSE s1

\* lines 84-121 with the name of lines 105-106 kept in a variable of the row
\* instead of r.Query.Name
MultiRowLocalName(s, q, row, idx) ==
    IF Len(row) > 1 /\ DataMetricNotSpecified(q)
    THEN Fail(s, "MissingDataMetricColumn", idx)
    ELSE [MultiColumns(s, q, row, 1, NoData, idx) EXCEPT !.Name = s.Name]

\* lines 84-121: one row
MultiRow(s, q, row, idx) ==
    IF Len(row) > 1 /\ DataMetricNotSpecified(q)
    THEN Fail(s, "MissingDataMetricColumn", idx)
    ELSE MultiColumns(s, q, row, 1, NoData, idx)

(***************************************************************************)
(* SetMetrics (lines 75-156) and RemoveMissingMetrics (lines 158-167)      *)
(***************************************************************************)
RECURSIVE RunRowsPastErrors(_, _, _, _)
\* the loops of lines 83 and 124 without the returns of lines 117 and 149:
\* a row that fails does not end the batch
RunRowsPastErrors(s, q, recs, i) ==
    IF i > Len(recs) \/ s.panic THEN s
    ELSE RunRowsPastErrors(
             IF s.err # "none"
             THEN [(IF q.MultiDimensional THEN MultiRow([s EXCEPT !.err = "none"], q, recs[i], i)
                                          ELSE SingleRow([s EXCEPT !.err = "none"], q, recs[i], i))
                   EXCEPT !.err = s.err, !.errRow = s.errRow]
             ELSE IF q.MultiDimensional THEN MultiRow(s, q, recs[i], i)
                                        ELSE SingleRow(s, q, recs[i], i),
             q, recs, i + 1)

RECURSIVE RunRows(_, _, _, _)
\* the loops of lines 83 and 124, from the i-th row on
RunRows(s, q, recs, i) ==
    IF i > Len(recs) \/ s.err # "none" \/ s.panic THEN s
    ELSE RunRows(IF q.MultiDimensional THEN MultiRow(s, q, recs[i], i)
                                       ELSE SingleRow(s, q, recs[i], i),
                 q, recs, i + 1)

\* the state a call starts in
Start(res, qname, reg) ==
    [Result |-> res, Name |-> qname, registered |-> reg, touched |-> {},
     err |-> "none", errRow |-> 0, panic |-> FALSE, key |-> <<>>, events |-> <<>>]

\* lines 76-79 looking at the last row instead of the first
AmbiguousSingleColumnLast(recs) == Len(recs) > 1 /\ Len(recs[Len(recs)]) = 1

\* lines 76-79
AmbiguousSingleColumn(recs) == Len(recs) > 1 /\ Len(recs[1]) = 1

\* SetMetrics(recs) on a QueryResult with map res, query q and registry reg
RunSetMetrics(res, q, reg, recs) ==
    LET s == Start(res, q.Name, reg)
    IN  IF AmbiguousSingleColumn(recs)
        THEN Fail(s, "AmbiguousSingleColumnResult", 0)
        ELSE RunRows(s, q, recs, 1)

\* the map SetMetrics returns: nil (here the empty set) beside an error
\* (lines 78, 87, 117, 131, 143, 149), facetsWithResult otherwise (line 155)
Returned(s) == IF s.err # "none" THEN {} ELSE s.touched

\* an Unregister that leaves the registry as it is
UnregisterNothing(reg, g) == reg

\* prometheus.Unregister
Unregister(reg, g) == reg \ {Desc(g)}

RECURSIVE RemoveLoop(_, _, _, _)
\* lines 159-166: the keys of r.Result still to visit
RemoveLoop(res, reg, keys, facetsWithResult) ==
    IF keys = {} THEN [Result |-> res, registered |-> reg]
    ELSE LET key == CHOOSE k \in keys : TRUE
         IN  IF key \in facetsWithResult
             THEN RemoveLoop(res, reg, keys \ {key}, facetsWithResult)
             ELSE RemoveLoop([x \in DOMAIN res \ {key} |-> res[x]],
                             Unregister(reg, res[key]),
                             keys \ {key}, facetsWithResult)

\* RemoveMissingMetrics returning at once when facetsWithResult is empty
RunRemoveMissingNonEmpty(res, reg, facetsWithResult) ==
    IF facetsWithResult = {} THEN [Result |-> res, registered |-> reg]
    ELSE RemoveLoop(res, reg, DOMAIN res, facetsWithResult)

\* RemoveMissingMetrics(facetsWithResult) on map res and registry reg
RunRemoveMissing(res, reg, facetsWithResult) ==
    RemoveLoop(res, reg, DOMAIN res, facetsWithResult)

(***************************************************************************)
(* Inputs.  A scenario is a query configuration together with the rows     *)
(* its batches are made of.                                                *)
(***************************************************************************)
c_host   == <<104, 111, 115, 116>>                \* host
c_Host   == <<72, 111, 115, 116>>                 \* Host
c_dc     == <<100, 99>>                           \* dc
c_value  == <<118, 97, 108, 117, 101>>            \* value
c_Value  == <<86, 97, 108, 117, 101>>             \* Value
c_region == <<114, 101, 103, 105, 111, 110>>      \* region
c_Region == <<82, 101, 103, 105, 111, 110>>       \* Region
c_cpu    == <<99, 112, 117>>                      \* cpu
c_mem    == <<109, 101, 109>>                     \* mem
c_name   == <<110, 97, 109, 101>>                 \* name
c_metric == <<109, 101, 116, 114, 105, 99>>       \* metric
t_a      == <<97>>                                \* a
t_A      == <<65>>                                \* A
t_b      == <<98>>                                \* b
t_eu     == <<101, 117>>                          \* eu
t_EU     == <<69, 85>>                            \* EU
t_x      == <<120>>                               \* x
t_1      == <<49>>                                \* 1
t_2      == <<50>>                                \* 2
t_1p5    == <<49, 46, 53>>                        \* 1.5
t_load   == <<108, 111, 97, 100>>                 \* load
t_mpct   == <<109, 37>>                           \* m%
t_io     == <<105, 111>>                          \* io

Col(k, v) == [k |-> k, v |-> v]

Query(multi, dataField, dataLabels, dataLabelName, dataMetric) ==
    [Name |-> t_load, MultiDimensional |-> multi, DataField |-> dataField,
     DataLabels |-> dataLabels, DataLabelName |-> dataLabelName,
     DataMetric |-> dataMetric]

QSingle(dataField) == Query(FALSE, dataField, <<>>, <<>>, <<>>)

QMulti(dataLabels, dataMetric) == Query(TRUE, <<>>, dataLabels, c_metric, dataMetric)

\* rows with a facet column and the data column of a query with
\* DataField = "value"
RowsValues ==
    { <<Col(c_host, StrV(t_a)), Col(c_value, StrV(t_1p5))>>,
      <<Col(c_value, StrV(t_2)), Col(c_host, StrV(t_b))>>,
      <<Col(c_Host, StrV(t_a)), Col(c_value, StrV(t_1p5))>>,
      <<Col(c_host, StrV(t_A)), Col(c_value, StrV(t_1p5))>>,
      <<Col(c_value, IntV(3)), Col(c_host, StrV(t_a))>>,
      <<Col(c_value, NilV), Col(c_host, StrV(t_b))>> }

\* rows of other shapes for the same query
RowsShapes ==
    { <<Col(c_value, StrV(t_1p5))>>,
      <<Col(c_host, StrV(t_a))>>,
      <<Col(c_host, StrV(t_a)), Col(c_dc, StrV(t_b))>>,
      <<Col(c_host, StrV(t_1)), Col(c_value, StrV(t_2))>>,
      <<Col(c_value, IntV(3)), Col(c_host, IntV(1))>>,
      <<Col(c_host, FloatV(10)), Col(c_value, StrV(t_2))>> }

\* rows for a query whose DataField is empty or is not lower-case
RowsField ==
    { <<Col(c_value, StrV(t_1p5))>>,
      <<Col(c_host, StrV(t_a)), Col(c_value, StrV(t_1p5))>>,
      <<Col(c_host, StrV(t_a)), Col(c_Value, IntV(3))>>,
      <<Col(c_Value, IntV(3)), Col(c_value, StrV(t_2)), Col(c_host, StrV(t_b))>> }

\* every order of visiting the row {region: eu, cpu: 10, mem: 20}
RowsPivot ==
    LET r == Col(c_region, StrV(t_eu))
        c == Col(c_cpu, IntV(10))
        m == Col(c_mem, IntV(20))
    IN  { <<r, c, m>>, <<r, m, c>>, <<c, r, m>>, <<c, m, r>>, <<m, r, c>>, <<m, c, r>> }

\* multi-dimensional rows without a label column, with and without the
\* metric-name column
RowsOverride ==
    { <<Col(c_cpu, IntV(10))>>,
      <<Col(c_mem, StrV(t_x)), Col(c_cpu, IntV(10))>>,
      <<Col(c_cpu, IntV(10)), Col(c_name, StrV(t_mpct))>>,
      <<Col(c_name, StrV(t_io)), Col(c_cpu, FloatV(25))>>,
      <<Col(c_name, StrV(t_io))>>,
      <<Col(c_mem, IntV(20))>> }

\* multi-dimensional rows with a label column
RowsLabels ==
    { <<Col(c_cpu, IntV(10))>>,
      <<Col(c_cpu, IntV(10)), Col(c_region, StrV(t_eu))>>,
      <<Col(c_cpu, IntV(10)), Col(c_Region, StrV(t_EU))>>,
      <<Col(c_region, StrV(t_eu)), Col(c_cpu, IntV(10))>>,
      <<Col(c_region, StrV(t_eu))>> }

Scenarios ==
    << [query |-> QSingle(c_value), rows |-> RowsValues],
       [query |-> QSingle(c_value), rows |-> RowsShapes],
       [query |-> QSingle(<<>>),    rows |-> RowsField],
       [query |-> QSingle(c_Value), rows |-> RowsField],
       [query |-> QMulti(<<c_region>>, c_name), rows |-> RowsPivot],
       [query |-> QMulti(<<c_region>>, c_name), rows |-> RowsOverride],
       [query |-> QMulti(<<c_Region>>, c_name), rows |-> RowsLabels],
       [query |-> QMulti(<<c_region>>, <<>>),   rows |-> RowsLabels] >>

\* the largest number of rows in a batch
MaxRows == 2

\* the batches of scenario n
Batches(n) == UNION {[1..len -> Scenarios[n].rows] : len \in 0..MaxRows}

(***************************************************************************)
(* The state machine.  SetMetrics and RemoveMissingMetrics are calls of    *)
(* the worker that owns the QueryResult; each is one step.  The step       *)
(* leaves in `call` what the caller can tell about the call it made: the   *)
(* arguments, the state the call started from and the library calls it     *)
(* made.  Return is the caller going on: the record is dropped.  The       *)
(* caller may call SetMetrics again with the same batch before that.       *)
(***************************************************************************)
VARIABLES
    scn,         \* the scenario: fixed by Init
    query,       \* r.Query; SetMetrics writes its Name
    Result,      \* r.Result
    registered,  \* the default registry: the descriptors registered
    pc,          \* "idle", then what the last call did: "processed"
                 \* (SetMetrics returned a set), "failed" (SetMetrics returned
                 \* an error), "reaped" (RemoveMissingMetrics returned),
                 \* "panic" (MustRegister panicked)
    touched,     \* the set the last SetMetrics returned (empty for nil)
    err,         \* the error the last SetMetrics returned ("none" for nil)
    call,        \* the call that has just ended, NoCall once the caller went on
    workers      \* the QueryResults of concurrent workers and where each is in
                 \* registerMetric or RemoveMissingMetrics (SpecTwo); empty
                 \* when one QueryResult is looked at alone (Spec)

vars == <<scn, query, Result, registered, pc, touched, err, call, workers>>

\* what the state is before a call
Pre == [Result |-> Result, registered |-> registered, Name |-> query.Name,
        touched |-> touched, err |-> err]

NoPre == [Result |-> <<>>, registered |-> {}, Name |-> <<>>, touched |-> {},
          err |-> "none"]

NoCall == [op |-> "none", recs |-> <<>>, arg |-> {}, pre |-> NoPre,
           events |-> <<>>, errRow |-> 0, again |-> FALSE]

\* NewQueryResult (lines 21-28), with an empty registry
Init ==
    /\ scn \in DOMAIN Scenarios
    /\ query = Scenarios[scn].query
    /\ Result = <<>>
    /\ registered = {}
    /\ pc = "idle"
    /\ touched = {}
    /\ err = "none"
    /\ call = NoCall
    /\ workers = <<>>

\* what a run of SetMetrics leaves in pc
PcAfter(s) ==
    IF s.panic THEN "panic" ELSE IF s.err # "none" THEN "failed" ELSE "processed"

\* the run of SetMetrics(recs) from the current state
Run(recs) == RunSetMetrics(Result, query, registered, recs)

\* r.SetMetrics(recs) runs from the current state
DoSetMetrics(recs, again) ==
    \E s \in {Run(recs)} :
        /\ Result' = s.Result
        /\ query' = [query EXCEPT !.Name = s.Name]
        /\ registered' = s.registered
        /\ pc' = PcAfter(s)
        /\ touched' = IF s.panic THEN {} ELSE Returned(s)
        /\ err' = s.err
        /\ call' = [op |-> "SetMetrics", recs |-> recs, arg |-> {}, pre |-> Pre,
                    events |-> s.events, errRow |-> s.errRow, again |-> again]
        /\ UNCHANGED <<scn, workers>>

\* a call of r.SetMetrics(recs)
SetMetrics(recs) ==
    /\ pc # "panic"
    /\ call = NoCall
    /\ DoSetMetrics(recs, FALSE)

\* a call of r.SetMetrics with the batch of the call that has just ended,
\* nothing else having happened since
SetMetricsAgain ==
    /\ pc # "panic"
    /\ call.op = "SetMetrics"
    /\ DoSetMetrics(call.recs, TRUE)

\* a call of r.RemoveMissingMetrics with the set the last SetMetrics returned
RemoveMissingMetrics ==
    /\ pc = "processed"
    /\ call = NoCall
    /\ \E s \in {RunRemoveMissing(Result, registered, touched)} :
           /\ Result' = s.Result
           /\ registered' = s.registered
    /\ pc' = "reaped"
    /\ call' = [NoCall EXCEPT !.op = "RemoveMissingMetrics", !.arg = touched, !.pre = Pre]
    /\ UNCHANGED <<scn, query, touched, err, workers>>

\* the caller goes on
Return ==
    /\ call # NoCall
    /\ call' = NoCall
    /\ UNCHANGED <<scn, query, Result, registered, pc, touched, err, workers>>

Next ==
    \/ \E recs \in Batches(scn) : SetMetrics(recs)
    \/ SetMetricsAgain
    \/ RemoveMissingMetrics
    \/ Return

Spec == Init /\ [][Next]_vars

(***************************************************************************)
(* Two QueryResults and one registry.  Each worker owns a QueryResult and  *)
(* runs registerMetric and the loop of RemoveMissingMetrics on it, one     *)
(* statement that touches the map or the registry at a time; set.go takes  *)
(* no lock, so the statements of the two workers interleave freely.  The   *)
(* registry itself is safe for concurrent use: MustRegister and Unregister *)
(* are each one step.  A panic ends the process.                           *)
(***************************************************************************)
Workers == {1, 2}

\* the metric names the two queries may be configured with
NamesTwo == {t_load, t_io}

\* the facet maps the rows of the workers give
FacetsTwo == {c_host :> StrV(t_a), c_host :> StrV(t_b)}

Idle(name, res) == [Name |-> name, Result |-> res, pc |-> "idle", key |-> <<>>,
                    labels |-> <<>>]

InitTwo ==
    /\ scn = 1
    /\ query = Scenarios[1].query
    /\ Result = <<>>
    /\ registered = {}
    /\ pc = "idle"
    /\ touched = {}
    /\ err = "none"
    /\ call = NoCall
    /\ \E names \in [Workers -> NamesTwo] :
          workers = [w \in Workers |-> Idle(names[w], <<>>)]

Running == \A w \in Workers : workers[w].pc # "panic"

\* lines 31-42 of registerMetric(facets): the key and the labels are
\* computed, the key is looked up in the worker's own map
Lookup(w, facets) ==
    /\ Running
    /\ workers[w].pc = "idle"
    /\ workers' = [workers EXCEPT ![w] =
          IF ResultKey(facets) \in DOMAIN @.Result THEN @
          ELSE [@ EXCEPT !.pc = "create", !.key = ResultKey(facets),
                         !.labels = Labels(facets)]]
    /\ UNCHANGED <<scn, query, Result, registered, pc, touched, err, call>>

\* lines 44-49: the gauge is built and stored in the worker's map
Create(w) ==
    /\ Running
    /\ workers[w].pc = "create"
    /\ workers' = [workers EXCEPT ![w] =
          [@ EXCEPT !.pc = "register",
                    !.Result = MapPut(@, workers[w].key,
                                      NewGauge(workers[w].Name, workers[w].labels))]]
    /\ UNCHANGED <<scn, query, Result, registered, pc, touched, err, call>>

\* line 50: prometheus.MustRegister; line 51: return
Register(w) ==
    /\ Running
    /\ workers[w].pc = "register"
    /\ LET g == workers[w].Result[workers[w].key]
       IN  IF Desc(g) \in registered
           THEN /\ workers' = [workers EXCEPT ![w].pc = "panic"]
                /\ UNCHANGED registered
           ELSE /\ workers' = [workers EXCEPT ![w].pc = "idle"]
                /\ registered' = registered \cup {Desc(g)}
    /\ UNCHANGED <<scn, query, Result, pc, touched, err, call>>

\* lines 160-164 for a key of the worker's map that is not in
\* facetsWithResult: prometheus.Unregister
UnregisterStep(w, key) ==
    /\ Running
    /\ workers[w].pc = "idle"
    /\ key \in DOMAIN workers[w].Result
    /\ registered' = Unregister(registered, workers[w].Result[key])
    /\ workers' = [workers EXCEPT ![w] = [@ EXCEPT !.pc = "delete", !.key = key]]
    /\ UNCHANGED <<scn, query, Result, pc, touched, err, call>>

\* line 165: delete(r.Result, key)
Delete(w) ==
    /\ Running
    /\ workers[w].pc = "delete"
    /\ workers' = [workers EXCEPT ![w] =
          [@ EXCEPT !.pc = "idle",
                    !.Result = [x \in DOMAIN @ \ {workers[w].key} |-> @[x]]]]
    /\ UNCHANGED <<scn, query, Result, registered, pc, touched, err, call>>

NextTwo ==
    \E w \in Workers :
       \/ \E facets \in FacetsTwo : Lookup(w, facets)
       \/ Create(w)
       \/ Register(w)
       \/ \E key \in DOMAIN workers[w].Result : UnregisterStep(w, key)
       \/ Delete(w)

SpecTwo == InitTwo /\ [][NextTwo]_vars

(***************************************************************************)
(* Properties                                                              *)
(***************************************************************************)
\* the events of kind op of the call that has just ended, and their keys
Events(op) == {i \in 1..Len(call.events) : call.events[i].op = op}
EventKeys(op) == {call.events[i].key : i \in Events(op)}

\* the descriptors of the gauges of a map
Descs(res) == {Desc(res[k]) : k \in DOMAIN res}

\* SetMetrics has just ended without a panic
Ended == call.op = "SetMetrics" /\ pc # "panic"

\* facet keys used below
k_host_a == ResultKey(c_host :> StrV(t_a))
k_host_b == ResultKey(c_host :> StrV(t_b))

\* C1: when SetMetrics has succeeded, the set it returns holds the keys its
\* rows set a value for; and when RemoveMissingMetrics has then run with
\* that set, r.Result holds exactly these keys, each with the gauge it had,
\* and the registry holds exactly these gauges: every other series is out of
\* the map and unregistered.
C1_ReapLeavesExactlyTouched ==
    /\ (Ended /\ pc = "processed") => touched = EventKeys("set")
    /\ call.op = "RemoveMissingMetrics" =>
          /\ call.arg = touched
          /\ DOMAIN Result = touched
          /\ \A k \in touched : Result[k] = call.pre.Result[k]
          /\ registered = Descs(Result)

\* C1 witness: after earlier batches, a batch without {host: b} was
\* processed and reaped: {host: b} went, {host: a} stays with the value 3
C1_Witness ==
    /\ call.op = "RemoveMissingMetrics"
    /\ touched = {k_host_a}
    /\ k_host_b \in DOMAIN call.pre.Result
    /\ DOMAIN Result = {k_host_a}
    /\ Result[k_host_a].val = 30

\* C2: a facet key names at most one live series.  A call of SetMetrics
\* builds and registers a gauge only for a key that r.Result did not hold,
\* no key twice, and the gauge of a key that r.Result held is the gauge it
\* held (same name and labels); so the registry holds one gauge per key.
C2_RegisteredOncePerKey ==
    call.op = "SetMetrics" =>
       /\ \A i \in Events("register") : call.events[i].key \notin DOMAIN call.pre.Result
       /\ \A i, j \in Events("register") :
             call.events[i].key = call.events[j].key => i = j
       /\ \A k \in DOMAIN call.pre.Result :
             /\ k \in DOMAIN Result
             /\ Desc(Result[k]) = Desc(call.pre.Result[k])
       /\ pc # "panic" => Cardinality(registered) = Cardinality(DOMAIN Result)

\* C2 witness: SetMetrics succeeded on two rows whose keys were in the map
\* already: registerMetric returned them and registered nothing
C2_Witness ==
    /\ Ended
    /\ pc = "processed"
    /\ touched = {k_host_a, k_host_b}
    /\ touched \subseteq DOMAIN call.pre.Result
    /\ Events("register") = {}

\* the columns of a row
Cols(row) == {row[j] : j \in 1..Len(row)}

\* a value setValueForResult accepts, and the float64 (in tenths) it stands for
Coercible(v) == v.t \in {"int", "float64"} \/ (v.t = "string" /\ ParseOK(v.s))
Coerced(v) == CASE v.t = "string" -> ParseVal(v.s) [] v.t = "int" -> 10 * v.n [] OTHER -> v.n

\* the facet map of the columns of row other than the data field
FacetsWithout(row, dataField) ==
    LET cs == {c \in Cols(row) : c.k # dataField}
    IN  [name \in {ToLower(c.k) : c \in cs} |->
            (CHOOSE c \in cs : ToLower(c.k) = name).v]

\* the value of the data field column of row
DataOf(row, dataField) == (CHOOSE c \in Cols(row) : c.k = dataField).v

\* C3 (as claimed): in single-dimensional mode with a non-empty DataField,
\* SetMetrics on a batch of multi-column rows that each hold the DataField
\* column with a coercible value succeeds, returns exactly the facet keys of
\* the rows' other columns, and leaves in each of these series the value of
\* the last row with that key.
C3_SingleDimensionalBatch ==
    (/\ call.op = "SetMetrics"
     /\ ~query.MultiDimensional
     /\ query.DataField # <<>>
     /\ \A i \in 1..Len(call.recs) :
           /\ Len(call.recs[i]) > 1
           /\ \E c \in Cols(call.recs[i]) : c.k = query.DataField /\ Coercible(c.v)) =>
       LET keyOf(i) == ResultKey(FacetsWithout(call.recs[i], query.DataField))
       IN  /\ pc = "processed"
           /\ touched = {keyOf(i) : i \in 1..Len(call.recs)}
           /\ \A i \in 1..Len(call.recs) :
                 (\A j \in (i + 1)..Len(call.recs) : keyOf(j) # keyOf(i))
                 => Result[keyOf(i)].val = Coerced(DataOf(call.recs[i], query.DataField))

\* whether column name k is one of the labels of q, or its metric-name column
IsLabelColumn(q, k) == \E j \in 1..Len(q.DataLabels) : ToLower(k) = ToLower(q.DataLabels[j])
IsMetricColumn(q, k) == ToLower(k) = ToLower(q.DataMetric)

\* the label columns of a row as a facet map
LabelFacets(q, row) ==
    LET cs == {c \in Cols(row) : IsLabelColumn(q, c.k)}
    IN  [name \in {ToLower(c.k) : c \in cs} |->
            (CHOOSE c \in cs : ToLower(c.k) = name).v]

\* C4 (as claimed): in multi-dimensional mode, for every row with a label
\* column and a data column, in every order of its columns, SetMetrics on
\* that row (here: on an empty map) succeeds
\* and creates exactly one series per column that is neither a label nor the
\* metric-name column, keyed by the row's label columns plus
\* {DataLabelName: column name} and holding that column's value; it creates
\* no other series.
C4_OneSeriesPerDataColumn ==
    (/\ call.op = "SetMetrics"
     /\ query.MultiDimensional
     /\ query.DataMetric # <<>>
     /\ call.pre.Result = <<>>
     /\ Len(call.recs) = 1
     /\ \E c \in Cols(call.recs[1]) : IsLabelColumn(query, c.k)
     /\ \E c \in Cols(call.recs[1]) :
           ~IsLabelColumn(query, c.k) /\ ~IsMetricColumn(query, c.k)
     /\ \A c \in Cols(call.recs[1]) :
           (~IsLabelColumn(query, c.k) /\ ~IsMetricColumn(query, c.k)) => Coercible(c.v)) =>
       LET row  == call.recs[1]
           data == {c \in Cols(row) :
                       ~IsLabelColumn(query, c.k) /\ ~IsMetricColumn(query, c.k)}
           keyOf(c) == ResultKey(MapPut(LabelFacets(query, row),
                                        query.DataLabelName, StrV(c.k)))
       IN  /\ pc = "processed"
           /\ DOMAIN Result = {keyOf(c) : c \in data}
           /\ \A c \in data : Result[keyOf(c)].val = Coerced(c.v)

\* a value with the text of a string in lower case
LowerV(v) == IF v.t = "string" THEN StrV(ToLower(v.s)) ELSE v

\* rows that differ, and only in the letter casing of column names or values
SameUpToCase(x, y) ==
    /\ x # y
    /\ Len(x) = Len(y)
    /\ {<<ToLower(c.k), LowerV(c.v)>> : c \in Cols(x)}
          = {<<ToLower(c.k), LowerV(c.v)>> : c \in Cols(y)}

\* C5 (as claimed, for single-dimensional queries): SetMetrics on a batch of
\* two rows that differ only in the casing of a label name or of a label
\* value succeeds and touches one series, whose labels are in lower case.
C5_CasingCollapses ==
    (/\ call.op = "SetMetrics"
     /\ ~query.MultiDimensional
     /\ Len(call.recs) = 2
     /\ Len(call.recs[1]) > 1
     /\ SameUpToCase(call.recs[1], call.recs[2])) =>
       /\ pc = "processed"
       /\ Cardinality(touched) = 1
       /\ \A k \in touched : \A l \in DOMAIN Result[k].labels :
             /\ l = ToLower(l)
             /\ Result[k].labels[l] = ToLower(Result[k].labels[l])

C7_FailureKeepsSeries ==
    (call.op = "SetMetrics" /\ err # "none") =>
       /\ pc = "failed"
       /\ touched = {}
       /\ \A i \in 1..Len(call.events) : call.events[i].row <= call.errRow
       /\ call.pre.registered \subseteq registered
       /\ \A k \in DOMAIN call.pre.Result :
             k \in DOMAIN Result /\ Desc(Result[k]) = Desc(call.pre.Result[k])
       /\ \A k \in EventKeys("register") : k \in DOMAIN Result
       /\ Descs(Result) \subseteq registered

\* C7 witness: the second row of a batch failed on its value; the series of
\* an earlier batch and the series the first row created are registered
C7_Witness ==
    /\ call.op = "SetMetrics"
    /\ pc = "failed"
    /\ err \in {"InvalidNumericText", "UnsupportedValueType"}
    /\ call.errRow = 2
    /\ \E i \in Events("register") : call.events[i].row = 1
    /\ call.pre.Result # <<>>
    /\ Descs(Result) \subseteq registered

\* C8: SetMetrics on a batch of more than one row whose first row has one
\* column fails with the ambiguous-single-column error in either mode, with
\* no library call: the map, its gauges, the registry and the query name
\* stay as they are.
C8_AmbiguousSingleColumn ==
    (call.op = "SetMetrics" /\ Len(call.recs) > 1 /\ Len(call.recs[1]) = 1) =>
       /\ pc = "failed"
       /\ err = "AmbiguousSingleColumnResult"
       /\ touched = {}
       /\ call.events = <<>>
       /\ Result = call.pre.Result
       /\ registered = call.pre.registered
       /\ query.Name = call.pre.Name

\* C8 witness: a multi-dimensional query that holds a series has returned
\* the error
C8_Witness ==
    /\ call.op = "SetMetrics"
    /\ err = "AmbiguousSingleColumnResult"
    /\ query.MultiDimensional
    /\ Result # <<>>

\* C9: in single-dimensional mode a row of more than one column is not
\* processed when DataField is empty or matches none of its columns: once
\* the batch gets to the row it fails there, with MissingDataField in the
\* first case and DataFieldNotFound in the second, and no library call is
\* made for the row.
C9_DataFieldErrors ==
    (call.op = "SetMetrics" /\ ~query.MultiDimensional) =>
       \A i \in 1..Len(call.recs) :
          (/\ Len(call.recs[i]) > 1
           /\ \/ query.DataField = <<>>
              \/ \A c \in Cols(call.recs[i]) : ToLower(c.k) # ToLower(query.DataField)) =>
             /\ pc = "panic" \/ (pc = "failed" /\ call.errRow <= i)
             /\ (pc = "failed" /\ call.errRow = i) =>
                   /\ err = IF query.DataField = <<>> THEN "MissingDataField"
                                                    ELSE "DataFieldNotFound"
                   /\ \A e \in 1..Len(call.events) : call.events[e].row # i

\* C9 witness: a batch failed with DataFieldNotFound on its second row,
\* after its first row had registered a series
C9_Witness ==
    /\ call.op = "SetMetrics"
    /\ err = "DataFieldNotFound"
    /\ query.DataField # <<>>
    /\ call.errRow = 2
    /\ Events("register") # {}

SingleFacet(row) == SingleColumns(query, row, 1, NoData).facet

\* C11 (as claimed): the key registerMetric computes is a function of the
\* (label name, label value) pairs of the facet map, the pairs line 37 makes
\* the labels of, and a one-to-one function: the facet maps of two rows of a
\* batch have the same key exactly when they have the same labels.
C11_KeyOfFacetPairs ==
    (call.op = "SetMetrics" /\ ~query.MultiDimensional /\ query.DataField # <<>>) =>
       \A i, j \in 1..Len(call.recs) :
          (Len(call.recs[i]) > 1 /\ Len(call.recs[j]) > 1) =>
             (Labels(SingleFacet(call.recs[i])) = Labels(SingleFacet(call.recs[j]))
                <=> ResultKey(SingleFacet(call.recs[i])) = ResultKey(SingleFacet(call.recs[j])))

\* the columns of row that lines 103-106 take the metric name from
OverrideColumns(q, row) ==
    {c \in Cols(row) : ~IsLabelColumn(q, c.k) /\ ToLower(c.k) = q.DataMetric}

\* C12 (as claimed): in multi-dimensional mode, in every order of the
\* columns, every gauge SetMetrics creates for a row that holds the
\* metric-name column is created under the name that column gives
\* (sanitized as lines 105-106 do), and the gauges that were in the map
\* before the call keep their names.
C12_OverrideBeforeSeries ==
    (call.op = "SetMetrics" /\ query.MultiDimensional /\ query.DataMetric # <<>>) =>
       /\ \A e \in Events("register") :
             \A c \in OverrideColumns(query, call.recs[call.events[e].row]) :
                /\ call.events[e].name = OverrideName(c.v.s)
                /\ Result[call.events[e].key].name = NamePrefix \o OverrideName(c.v.s)
       /\ \A k \in DOMAIN call.pre.Result :
             k \in DOMAIN Result /\ Result[k].name = call.pre.Result[k].name

RECURSIVE NameLeft(_)
\* r.Query.Name when the rows before the i-th of the batch of the call have
\* been processed: the name the last of them with a metric-name column gave,
\* the name the call started with if there is none
NameLeft(i) ==
    IF i = 1 THEN call.pre.Name
    ELSE LET cs == OverrideColumns(query, call.recs[i - 1])
         IN  IF cs = {} THEN NameLeft(i - 1)
             ELSE OverrideName((CHOOSE c \in cs : TRUE).v.s)

\* C13: a metric-name override is stored in r.Query.Name and stays: a row
\* without the metric-name column creates its series under the name the
\* most recent override left, be it of an earlier row of the batch or of an
\* earlier batch, and a call that succeeds leaves in r.Query.Name the name
\* of its last override, or the name it found.
C13_OverridePersists ==
    (call.op = "SetMetrics" /\ query.MultiDimensional /\ query.DataMetric # <<>>) =>
       /\ \A e \in Events("register") :
             OverrideColumns(query, call.recs[call.events[e].row]) = {} =>
                /\ call.events[e].name = NameLeft(call.events[e].row)
                /\ Result[call.events[e].key].name
                      = NamePrefix \o NameLeft(call.events[e].row)
       /\ pc = "processed" => query.Name = NameLeft(Len(call.recs) + 1)

\* C13 witness: the query name was "io" from an earlier batch; the first row
\* of this batch overrode it with "m%", and its second row, which has no
\* override column, created a series named query_result_m_
C13_Witness ==
    /\ call.op = "SetMetrics"
    /\ pc = "processed"
    /\ call.pre.Name = t_io
    /\ Len(call.recs) = 2
    /\ OverrideColumns(query, call.recs[1]) # {}
    /\ OverrideColumns(query, call.recs[2]) = {}
    /\ \E e \in Events("register") :
          /\ call.events[e].row = 2
          /\ Result[call.events[e].key].name = NamePrefix \o OverrideName(t_mpct)
    /\ query.Name = OverrideName(t_mpct)

\* C14 (as claimed): column names are matched without regard to case on
\* either side.  A single-dimensional row with a column whose name equals
\* DataField up to case is not refused for want of the data field, and the
\* column is not a facet of its series; a multi-dimensional row's column
\* whose name equals a label of DataLabels up to case is not taken for data.
C14_ColumnNamesIgnoreCase ==
    /\ (/\ call.op = "SetMetrics"
        /\ ~query.MultiDimensional
        /\ query.DataField # <<>>
        /\ Len(call.recs) = 1
        /\ Len(call.recs[1]) > 1
        /\ \E c \in Cols(call.recs[1]) : ToLower(c.k) = ToLower(query.DataField)) =>
          /\ err # "DataFieldNotFound"
          /\ \A e \in Events("register") :
                ToLower(query.DataField) \notin DOMAIN Result[call.events[e].key].labels
    /\ (/\ call.op = "SetMetrics"
        /\ query.MultiDimensional
        /\ query.DataMetric # <<>>) =>
          \A e \in Events("register") :
             \A c \in Cols(call.recs[call.events[e].row]) :
                LET labels == Result[call.events[e].key].labels
                IN  (IsLabelColumn(query, c.k) /\ query.DataLabelName \in DOMAIN labels)
                    => labels[query.DataLabelName] # ToLower(c.k)

\* a worker is between the lookup of line 40 and the return of line 51
Registering(w) == workers[w].pc \in {"create", "register"}

\* the name and labels of the gauge a worker is creating
Pending(w) == [name |-> NamePrefix \o workers[w].Name, labels |-> workers[w].labels]

\* C15 (as claimed): the create/register and unregister operations of
\* concurrent QueryResults are serialized by one lock, so two QueryResults
\* are never at once creating and registering a gauge of the same name and
\* labels, and no registration finds its name and labels taken by the other
\* (the panic of MustRegister).
C15_RegistryOpsUnderOneLock ==
    /\ \A w1, w2 \in DOMAIN workers :
          (w1 # w2 /\ Registering(w1) /\ Registering(w2)) => Pending(w1) # Pending(w2)
    /\ \A w \in DOMAIN workers : workers[w].pc # "panic"

\* the key of the empty facet map
k_empty == ResultKey(<<>>)

\* C16 (as claimed): SetMetrics rejects every batch of more than one row in
\* which some row, the first or a later one, has exactly one column; so a
\* single-dimensional batch of more than one row that succeeds does not set
\* the series of the empty facet map.
C16_SingleColumnOnlyAlone ==
    (call.op = "SetMetrics" /\ Len(call.recs) > 1) =>
       /\ (\E i \in 1..Len(call.recs) : Len(call.recs[i]) = 1) => pc = "failed"
       /\ (~query.MultiDimensional /\ pc = "processed") => k_empty \notin touched

\* C17: SetMetrics on a batch of no rows succeeds, returns the empty set,
\* makes no library call and leaves the map, its gauges, the registry and
\* the query name as they were; RemoveMissingMetrics with the empty set
\* then unregisters and removes every series: the map and the registry are
\* empty.
C17_EmptyBatchThenReap ==
    /\ (call.op = "SetMetrics" /\ call.recs = <<>>) =>
          /\ pc = "processed"
          /\ err = "none"
          /\ touched = {}
          /\ call.events = <<>>
          /\ Result = call.pre.Result
          /\ registered = call.pre.registered
          /\ query.Name = call.pre.Name
    /\ (call.op = "RemoveMissingMetrics" /\ call.arg = {}) =>
          /\ Result = <<>>
          /\ registered = {}

\* C17 witness: a QueryResult with two series has processed a batch of no
\* rows and has been reaped
C17_Witness ==
    /\ call.op = "RemoveMissingMetrics"
    /\ call.arg = {}
    /\ Cardinality(DOMAIN call.pre.Result) = 2
    /\ Cardinality(call.pre.registered) = 2
    /\ Result = <<>>
    /\ registered = {}

\* C18 (as claimed): two series of r.Result under different keys differ in
\* name or labels, and MustRegister is never called for a name and labels
\* that are registered: it never panics.
C18_KeysHaveDistinctDescriptors ==
    /\ \A k1, k2 \in DOMAIN Result :
          k1 # k2 => Desc(Result[k1]) # Desc(Result[k2])
    /\ pc # "panic"

\* C19 (as claimed): after any calls of SetMetrics and RemoveMissingMetrics
\* the gauges registered and the gauges of r.Result are the same: every
\* registered name and label set is that of a gauge of the map, and every
\* gauge of the map is registered, each under a name and label set of its
\* own.
C19_RegisteredIsMap ==
    /\ registered = Descs(Result)
    /\ Cardinality(registered) = Cardinality(DOMAIN Result)

\* C20 (as claimed): every series of r.Result that is registered has been
\* set from a row at least once, also after a batch that failed on a value.
C20_RegisteredSeriesAreSet ==
    pc # "panic" => \A k \in DOMAIN Result : Result[k].isSet

=============================================================================
